---- MODULE Spec2Model ----
(***************************************************************************)
(* Model of dessia_common/workflow.py: Variables, Blocks, Pipes, the       *)
(* WorkFlow constructor with its networkx dependency graph, WorkFlow.run   *)
(* (the activation-propagation loop), WorkflowRun and ForEach.evaluate.    *)
(* The stepwise run (start_run, advance) and the exchange representation   *)
(* are not part of workflow.py; they follow the specification.             *)
(*                                                                         *)
(* A Variable, Block or Pipe object is identified by a triple              *)
(* <<tag, i, k>>: <<"in", b, k>> and <<"out", b, k>> are the k-th input    *)
(* and output Variable created by the constructor of the b-th Block,       *)
(* <<"free", 0, k>> is a Variable created on its own by the caller,        *)
(* <<"block", b, 0>> the b-th Block and <<"pipe", i, 0>> the i-th Pipe.    *)
(* Values that flow through the workflow are small naturals; the user code *)
(* called by a Block (a class, a method, a function, an attribute) is a    *)
(* fixed deterministic function of its arguments, or raises.               *)
(***************************************************************************)
EXTENDS Integers, Sequences, FiniteSets, TLC

\* ---------------------------------------------------------------- bounds
MaxBlocks == 2
MaxPipes == 2
MaxPipesMixed == 1
MaxVal == 1
MaxColl == 2
MaxParams == 2

Val == 0..MaxVal

VARIABLES
  pc,                  \* where the program is: see the actions
  blocks,              \* the Block objects created so far; WorkFlow.blocks afterwards
  pipes,               \* the Pipe objects created so far; WorkFlow.pipes afterwards
  variables,           \* WorkFlow.variables
  inputs,              \* WorkFlow.inputs   (Block.__init__(self, input_variables, ..))
  outputs,             \* WorkFlow.outputs  (Block.__init__(self, .., [output]))
  cached_graph,        \* WorkFlow._cached_graph: [nodes, edges]
  utd_graph,           \* WorkFlow._utd_graph
  input_variables_values, \* argument of the run in progress
  activated_items,     \* run: local dict activated_items
  values,              \* run: local dict values
  something_activated, \* run: local flag
  idx,                 \* run: position of the for loop in progress (pipes or blocks)
  result,              \* the WorkflowRun the last run returned: <<>> or <<[workflow_run]>>
  err,                 \* the exception the last call raised, "none" if none
  caller,              \* who called run: "none", "main" or "foreach"
  fe,                  \* ForEach.evaluate in progress: its argument values, loop position, output_values
  fe_result,           \* what ForEach.evaluate returned: <<>> or <<list of outputs>>
  trace,               \* history: the activations and evaluations of the current run, in order
  passes,              \* history: for each pass of the current run, the length of trace when it began
  nruns,               \* history: runs of the wrapped workflow started by the current ForEach.evaluate
  dicts,               \* the dict objects the runs created for their local name values, in order of creation
  runs,                \* the WorkflowRun objects created so far: [values: index in dicts, output_value]
  evaluated,           \* a direct call of Block.evaluate: <<>> or <<[block, values, returned]>>
  tree,                \* the exchange representation of the workflow: <<>> or <<tree>>
  deserialized         \* the workflow made from the exchange representation: <<>> or <<workflow>>

wfvars == <<blocks, pipes, variables, inputs, outputs, cached_graph, utd_graph>>
runvars == <<input_variables_values, activated_items, values, something_activated, idx, passes>>
heapvars == <<dicts, runs>>
exchangevars == <<tree, deserialized>>
vars == <<pc, wfvars, runvars, result, err, caller, fe, fe_result, trace, nruns, heapvars,
         evaluated, exchangevars>>

\* ------------------------------------------------------------- helpers
EmptyMap == [x \in {} |-> 0]

Put(m, k, v) == [x \in (DOMAIN m) \cup {k} |-> IF x = k THEN v ELSE m[x]]

Min(a, b) == IF a < b THEN a ELSE b

Range(s) == {s[i] : i \in 1..Len(s)}

\* ------------------------------------------------- Variable, Block, Pipe
FreeVariable == <<"free", 0, 1>>
InVar(b, k) == <<"in", b, k>>
OutVar(b, k) == <<"out", b, k>>
BlockItem(b) == <<"block", b, 0>>
PipeItem(i) == <<"pipe", i, 0>>

\* Block.inputs and Block.outputs of the b-th block: the Variables its constructor made.
BlockInputs(b) == [k \in 1..blocks[b].nin |-> InVar(b, k)]
BlockOutputs(b) == [k \in 1..blocks[b].nout |-> OutVar(b, k)]

\* The Block variants a caller can construct. nin follows the reflected signature:
\* a class of two constructor parameters, a method without parameters (the model
\* itself is the first input), a function of one parameter.
\* user is what the wrapped user code does when called: "ok" returns a value,
\* "raise" raises; for Function it is what the plain function returns: "scalar" a
\* number, "list" a one-element list, "empty" an empty list.
InstanciateModel == [kind |-> "InstanciateModel", nin |-> 2, nout |-> 1, user |-> "ok"]
ModelMethod == [kind |-> "ModelMethod", nin |-> 1, nout |-> 2, user |-> "ok"]
ModelAttributes == {[kind |-> "ModelAttribute", nin |-> 1, nout |-> 1, user |-> u] : u \in {"ok", "raise"}}
Functions == {[kind |-> "Function", nin |-> 1, nout |-> 1, user |-> u] : u \in {"scalar", "list", "empty"}}

BlockVariants == {InstanciateModel, ModelMethod} \cup ModelAttributes \cup Functions

\* The plain block: one input, one output, user code that returns.
PlainBlock == [kind |-> "ModelAttribute", nin |-> 1, nout |-> 1, user |-> "ok"]

\* How many Pipes the explored workflows have at most: MaxPipes when every Block
\* is the plain one, MaxPipesMixed otherwise.
PipeBound ==
  IF \A b \in 1..Len(blocks) : blocks[b] = PlainBlock THEN MaxPipes ELSE MaxPipesMixed

\* The user code: a deterministic function of the argument list that tells the
\* arguments and their positions apart (the i-th argument weighs i).
RECURSIVE WeightedSum(_)
WeightedSum(s) ==
  IF s = <<>> THEN 0 ELSE WeightedSum(SubSeq(s, 1, Len(s) - 1)) + Len(s) * s[Len(s)]

UserCall(args) == (1 + WeightedSum(args)) % (MaxVal + 4)

\* The user method of a ModelMethod block, called on the receiver with the arguments.
MethodCall(receiver, args) == UserCall(<<receiver>> \o args)

\* Mutant: the model comes first and the result of the method second.
ModelMethodEvaluate_swapped(vals) == <<vals[1], MethodCall(vals[1], Tail(vals))>>

\* Line 49: [getattr(values[0], self.method_name)(*values[1:]), values[0]]
ModelMethodEvaluate(vals) == <<MethodCall(vals[1], Tail(vals)), vals[1]>>

\* Block.evaluate(values): [tag, items]. tag "list": a list was returned, items;
\* tag "scalar": the object items[1], not a list, was returned; tag "raise": raised.
Evaluate(blk, vals) ==
  CASE blk.user = "raise" -> [tag |-> "raise", items |-> <<>>]
    [] blk.kind = "InstanciateModel" -> [tag |-> "list", items |-> <<UserCall(vals)>>]
    [] blk.kind = "ModelMethod" -> [tag |-> "list", items |-> ModelMethodEvaluate(vals)]
    [] blk.kind = "ModelAttribute" -> [tag |-> "list", items |-> <<UserCall(vals)>>]
    [] blk.kind = "Function" /\ blk.user = "scalar" -> [tag |-> "scalar", items |-> <<UserCall(vals)>>]
    [] blk.kind = "Function" /\ blk.user = "list" -> [tag |-> "list", items |-> <<UserCall(vals)>>]
    [] blk.kind = "Function" /\ blk.user = "empty" -> [tag |-> "list", items |-> <<>>]


\* A ModelMethod block of a method with n parameters besides self.
ModelMethodOf(n) == [kind |-> "ModelMethod", nin |-> n + 1, nout |-> 2, user |-> "ok"]

\* The Blocks a caller constructs to call their evaluate directly.
DirectBlocks == BlockVariants \cup {ModelMethodOf(n) : n \in 0..MaxParams}

\* --------------------------------------------------- WorkFlow.__init__
\* self.variables: for each block in order, its inputs then its outputs.
RECURSIVE AllVariables(_)
AllVariables(n) ==
  IF n = 0 THEN <<>> ELSE AllVariables(n - 1) \o BlockInputs(n) \o BlockOutputs(n)

\* WorkFlow._graph: a networkx DiGraph. add_edge adds the end points of an edge
\* that are not yet nodes, so a Pipe's Variables become nodes too.
Graph(vs) ==
  LET blockEdges == UNION {
          {<<InVar(b, k), BlockItem(b)>> : k \in 1..blocks[b].nin}
            \cup {<<BlockItem(b), OutVar(b, k)>> : k \in 1..blocks[b].nout}
          : b \in 1..Len(blocks)}
      pipeEdges == {<<pipes[i].input_variable, pipes[i].output_variable>> : i \in 1..Len(pipes)}
  IN [nodes |-> Range(vs) \cup {BlockItem(b) : b \in 1..Len(blocks)}
                  \cup {e[1] : e \in pipeEdges} \cup {e[2] : e \in pipeEdges},
      edges |-> blockEdges \cup pipeEdges]

\* networkx.ancestors(G, n): the nodes with a path to n, n itself left out.
RECURSIVE ReachTo(_, _, _)
ReachTo(G, seen, frontier) ==
  IF frontier = {} THEN seen
  ELSE LET new == {e[1] : e \in {e \in G.edges : e[2] \in frontier}} \ seen
       IN ReachTo(G, seen \cup new, new)

Ancestors(G, n) == ReachTo(G, {n}, {n}) \ {n}

\* The loop of lines 111-115 over self.variables.
InputVariables(vs, G) == SelectSeq(vs, LAMBDA v : Ancestors(G, v) = {})

NoGraph == [nodes |-> {}, edges |-> {}]

\* The Variables that exist when the caller builds Pipes and names the output.
CreatedVariables == Range(AllVariables(Len(blocks))) \cup {FreeVariable}

Init ==
  /\ pc = "new"
  /\ blocks = <<>>
  /\ pipes = <<>>
  /\ variables = <<>>
  /\ inputs = <<>>
  /\ outputs = <<>>
  /\ cached_graph = NoGraph
  /\ utd_graph = FALSE
  /\ input_variables_values = <<>>
  /\ activated_items = EmptyMap
  /\ values = EmptyMap
  /\ something_activated = FALSE
  /\ idx = 0
  /\ result = <<>>
  /\ err = "none"
  /\ caller = "none"
  /\ fe = [values |-> <<>>, pos |-> 0, output_values |-> <<>>]
  /\ fe_result = <<>>
  /\ trace = <<>>
  /\ passes = <<>>
  /\ nruns = 0
  /\ dicts = <<>>
  /\ runs = <<>>
  /\ evaluated = <<>>
  /\ tree = <<>>
  /\ deserialized = <<>>

\* The caller constructs a Block of one of the variants (the Blocks before the Pipes).
NewBlock ==
  /\ pc = "new"
  /\ pipes = <<>>
  /\ Len(blocks) < MaxBlocks
  /\ \E variant \in BlockVariants : blocks' = Append(blocks, variant)
  /\ UNCHANGED <<pc, pipes, variables, inputs, outputs, cached_graph, utd_graph,
                 runvars, result, err, caller, fe, fe_result, trace, nruns,
                 heapvars, evaluated, exchangevars>>

\* The caller constructs a Block and calls block.evaluate(values) itself, with
\* one value per input of the Block.
CallEvaluate ==
  /\ pc = "new"
  /\ blocks = <<>>
  /\ pipes = <<>>
  /\ \E blk \in DirectBlocks : \E vals \in [1..blk.nin -> Val] :
       evaluated' = <<[block |-> blk, values |-> vals, returned |-> Evaluate(blk, vals)]>>
  /\ pc' = "evaluated"
  /\ UNCHANGED <<wfvars, runvars, result, err, caller, fe, fe_result, trace, nruns, heapvars,
                 exchangevars>>

\* Pipe.__init__(input_variable, output_variable)
NewPipe ==
  /\ pc = "new"
  /\ Len(pipes) < PipeBound
  /\ \E src \in CreatedVariables, tgt \in CreatedVariables :
       pipes' = Append(pipes, [input_variable |-> src, output_variable |-> tgt])
  /\ UNCHANGED <<pc, blocks, variables, inputs, outputs, cached_graph, utd_graph,
                 runvars, result, err, caller, fe, fe_result, trace, nruns,
                 heapvars, evaluated, exchangevars>>

\* WorkFlow.__init__(blocks, pipes, output). The graph property is first read in
\* the loop over self.variables, which caches it; with no variable it is never read.
WorkFlowInit ==
  /\ pc = "new"
  /\ \E output \in CreatedVariables :
       LET vs == AllVariables(Len(blocks))
           G == Graph(vs)
       IN /\ variables' = vs
          /\ utd_graph' = (Len(vs) > 0)
          /\ cached_graph' = IF Len(vs) > 0 THEN G ELSE NoGraph
          /\ inputs' = InputVariables(vs, G)
          /\ outputs' = <<output>>
  /\ pc' = "idle"
  /\ UNCHANGED <<blocks, pipes, runvars, result, err, caller, fe, fe_result, trace, nruns,
                 heapvars, evaluated, exchangevars>>

\* ------------------------------------------------------- WorkFlow.run
\* The keys of activated_items after lines 163-165.
Items ==
  {PipeItem(i) : i \in 1..Len(pipes)} \cup Range(variables)
    \cup {BlockItem(b) : b \in 1..Len(blocks)}

\* Mutant: the values are bound to the inputs from the last to the first.
BindInputs_reversed(ivv) ==
  [v \in Range(inputs) |->
     ivv[Len(inputs) + 1 - (CHOOSE i \in 1..Len(inputs) : inputs[i] = v)]]

\* zip(input_variables_values, self.inputs) of lines 172-175: the dict values
\* after the loop (a Variable met twice keeps the later value).
BindInputs(ivv) ==
  [v \in Range(inputs) |->
     ivv[CHOOSE i \in 1..Len(inputs) :
           inputs[i] = v /\ \A j \in 1..Len(inputs) : inputs[j] = v => j <= i]]

\* A frame is the state of one call of run: where it is and its locals.
Frame ==
  [pc |-> pc, activated_items |-> activated_items, values |-> values,
   something_activated |-> something_activated, idx |-> idx,
   result |-> result, err |-> err, trace |-> trace, passes |-> passes]

\* An exception leaves run: nothing of run executes after it.
Raise(f, e) == [f EXCEPT !.pc = "raised", !.err = e]

\* Mutant: only too few values are refused.
ArityMismatch_tooFewOnly(ivv) == Len(ivv) < Len(inputs)

\* Line 167: the test that makes run raise ValueError.
ArityMismatch(ivv) == Len(ivv) # Len(inputs)

\* Lines 163-177: the call of run up to the while loop.
\* Mutant: the inputs are bound but not marked activated.
ActivateInputs_forgotten == [x \in Items |-> FALSE]

\* Lines 171 and 175: the flags after the loop over the inputs.
ActivateInputs == [x \in Items |-> x \in Range(inputs)]

\* Mutant: the flags of the previous call are kept and the inputs added to them.
RunStart_stale(ivv) ==
  LET f0 == [pc |-> "loop", activated_items |-> [x \in Items |-> FALSE],
             values |-> EmptyMap, something_activated |-> FALSE, idx |-> 0,
             result |-> <<>>, err |-> "none", trace |-> <<>>, passes |-> <<>>]
  IN IF ArityMismatch(ivv)
     THEN Raise(f0, "ValueError")
     ELSE [f0 EXCEPT !.values = BindInputs(ivv),
                     !.activated_items =
                        [x \in Items |->
                           \/ x \in Range(inputs)
                           \/ (x \in DOMAIN activated_items /\ activated_items[x])],
                     !.something_activated = TRUE]

\* Lines 162-177: the call of run up to the while loop: the arity test, the fresh
\* locals, the inputs bound and activated.
RunStart(ivv) ==
  LET f0 == [pc |-> "loop", activated_items |-> [x \in Items |-> FALSE],
             values |-> EmptyMap, something_activated |-> FALSE, idx |-> 0,
             result |-> <<>>, err |-> "none", trace |-> <<>>, passes |-> <<>>]
  IN IF ArityMismatch(ivv)
     THEN Raise(f0, "ValueError")
     ELSE [f0 EXCEPT !.values = BindInputs(ivv),
                     !.activated_items = ActivateInputs,
                     !.something_activated = TRUE]

\* Where control goes after the for loop over the pipes, on entering a pass,
\* after the pipe at position i and after the block at position i.
AfterPipes == IF Len(blocks) > 0 THEN <<"blocks", 1>> ELSE <<"loop", 0>>
EnterPass == IF Len(pipes) > 0 THEN <<"pipes", 1>> ELSE AfterPipes
\* Mutant: the loop over the pipes is left after its first pipe.
AfterPipe_break(i) == AfterPipes

\* Line 182: after the pipe at position i the for loop goes on with the next pipe.
AfterPipe(i) == IF i < Len(pipes) THEN <<"pipes", i + 1>> ELSE AfterPipes

\* Mutant: the loop over the blocks is left after its first block.
AfterBlock_break(i) == <<"loop", 0>>

\* Line 190: after the block at position i the for loop goes on with the next
\* block; after the last one the pass is over.
AfterBlock(i) == IF i < Len(blocks) THEN <<"blocks", i + 1>> ELSE <<"loop", 0>>

Goto(f, pos) == [f EXCEPT !.pc = pos[1], !.idx = pos[2]]

\* Mutant: the flag is not set after an activation.
SomethingActivated_forgotten(f) == f

\* Lines 188 and 207: something_activated = True
SomethingActivated(f) == [f EXCEPT !.something_activated = TRUE]

\* Mutant: the loop visits the blocks in reverse list order.
VisitedBlock_reversed(p) == Len(blocks) + 1 - p

\* Line 190: for block in self.blocks visits the blocks in list order; the block
\* visited at position p of the loop.
VisitedBlock(p) == p

\* Mutant: the flag is not reset at the beginning of a pass.
LoopTest_noReset(f) ==
  IF f.something_activated
  THEN Goto([f EXCEPT !.passes = Append(f.passes, Len(f.trace))], EnterPass)
  ELSE [f EXCEPT !.pc = "ret", !.idx = 0]

\* Lines 179-180: the test of the while loop; line 209 follows the loop. Every
\* pass that begins is recorded in passes with the length the trace has then.
LoopTest(f) ==
  IF f.something_activated
  THEN Goto([f EXCEPT !.something_activated = FALSE,
                      !.passes = Append(f.passes, Len(f.trace))], EnterPass)
  ELSE [f EXCEPT !.pc = "ret", !.idx = 0]

\* Mutant: the Pipe hands on a value other than the one its source holds.
Relayed_changed(v) == (v + 1) % (MaxVal + 4)

\* Line 186: values[pipe.output_variable] = values[pipe.input_variable]; the
\* target gets the very object the source holds.
Relayed(v) == v

\* Mutant: the target of the Pipe gets the value but not the flag.
ActivateTarget_forgotten(act, tgt) == act

\* Line 187: activated_items[pipe.output_variable] = True
ActivateTarget(act, tgt) == Put(act, tgt, TRUE)

\* Lines 183-188: the body of the loop over the pipes, for the pipe at f.idx.
PipeBody(f) ==
  LET i == f.idx
      src == pipes[i].input_variable
      tgt == pipes[i].output_variable
      act == f.activated_items
  IN IF act[PipeItem(i)] THEN Goto(f, AfterPipe(i))
     ELSE IF src \notin DOMAIN act THEN Raise(f, "KeyError")
     ELSE IF ~act[src] THEN Goto(f, AfterPipe(i))
     ELSE IF src \notin DOMAIN f.values
          THEN Raise([f EXCEPT !.activated_items = Put(act, PipeItem(i), TRUE)], "KeyError")
     ELSE Goto(SomethingActivated(
                 [f EXCEPT !.activated_items = ActivateTarget(Put(act, PipeItem(i), TRUE), tgt),
                           !.values = Put(f.values, tgt, Relayed(f.values[src])),
                           !.trace = Append(f.trace, PipeItem(i))]),
               AfterPipe(i))

\* Mutant: the exception of a Block is noted and the loop goes on with the next Block.
EvaluateRaised_skipped(f) == Goto([f EXCEPT !.err = "UserError"], AfterBlock(f.idx))

\* Lines 200-201: block.evaluate is called outside any try, so what the user code
\* raises leaves run.
EvaluateRaised(f) == Raise(f, "UserError")

\* Lines 192-197: all_inputs_activated for the block at position b.
AllInputsActivated(act, b) == \A k \in 1..blocks[b].nin : act[InVar(b, k)]

\* Mutant: the returned values are zipped with the inputs of the Block.
ZippedOutput_input(b, k) == InVar(b, Min(k, blocks[b].nin))

\* Line 202: the Variable zip pairs with the k-th returned value, block.outputs[k].
ZippedOutput(b, k) == OutVar(b, k)

\* Mutant: binding the outputs starts the flags of the Variables afresh.
BindOutputs_resetting(f, b, items) ==
  LET n == Min(blocks[b].nout, Len(items))
      bound == {ZippedOutput(b, k) : k \in 1..n}
  IN [f EXCEPT
        !.values = [x \in (DOMAIN f.values) \cup bound |->
                      IF x \in bound THEN items[x[3]] ELSE f.values[x]],
        !.activated_items = [x \in (DOMAIN f.activated_items) \cup bound |->
                      IF x \in bound THEN TRUE
                      ELSE IF x[1] \in {"pipe", "block"} THEN f.activated_items[x]
                      ELSE FALSE]]

\* Lines 202-204: zip(block.outputs, output_values) binds the outputs pairwise
\* and stops at the shorter of the two.
BindOutputs(f, b, items) ==
  LET n == Min(blocks[b].nout, Len(items))
      bound == {ZippedOutput(b, k) : k \in 1..n}
  IN [f EXCEPT
        !.values = [x \in (DOMAIN f.values) \cup bound |->
                      IF x \in bound THEN items[x[3]] ELSE f.values[x]],
        !.activated_items = [x \in (DOMAIN f.activated_items) \cup bound |->
                      IF x \in bound THEN TRUE ELSE f.activated_items[x]]]

\* Mutant: the values of the inputs are passed from the last input to the first.
CallArguments_reversed(f, b) ==
  [k \in 1..blocks[b].nin |-> f.values[InVar(b, blocks[b].nin + 1 - k)]]

\* Lines 200-201: [values[i] for i in block.inputs], the argument of evaluate.
CallArguments(f, b) == [k \in 1..blocks[b].nin |-> f.values[InVar(b, k)]]

\* Mutant: a Block is evaluated again at every pass.
BlockDone_never(act, b) == FALSE

\* Line 191: if not activated_items[block]
BlockDone(act, b) == act[BlockItem(b)]

\* Lines 191-207: the body of the loop over the blocks, for the block at f.idx.
\* An exception of the user code leaves run; a returned object that is no list
\* makes zip raise TypeError.
BlockBody(f) ==
  LET b == VisitedBlock(f.idx) IN
  IF BlockDone(f.activated_items, b) \/ ~AllInputsActivated(f.activated_items, b)
  THEN Goto(f, AfterBlock(f.idx))
  ELSE
    LET r == Evaluate(blocks[b], CallArguments(f, b))
        called == [f EXCEPT !.trace = Append(f.trace, BlockItem(b))]
    IN CASE r.tag = "raise" -> EvaluateRaised(called)
         [] r.tag = "scalar" -> Raise(called, "TypeError")
         [] r.tag = "list" ->
              LET g == BindOutputs(called, b, r.items)
              IN Goto(SomethingActivated(
                        [g EXCEPT !.activated_items = Put(g.activated_items, BlockItem(b), TRUE)]),
                      AfterBlock(f.idx))

\* Mutant: the value of the first workflow input is taken for the output value.
OutputValue_firstInput(vals) == vals[inputs[1]]

\* Line 217: self.values[self.workflow.outputs[0]]
OutputValue(vals) == vals[outputs[1]]

\* Lines 209 and 213-217: WorkflowRun(self, values).
WorkflowRun(f) ==
  IF outputs[1] \in DOMAIN f.values
  THEN [f EXCEPT !.pc = "returned",
                 !.result = <<[values |-> f.values, output_value |-> OutputValue(f.values)]>>]
  ELSE Raise(f, "KeyError")

\* One step of the call of run in progress.
StepFrame(f) ==
  CASE f.pc = "loop" -> LoopTest(f)
    [] f.pc = "pipes" -> PipeBody(f)
    [] f.pc = "blocks" -> BlockBody(f)
    [] f.pc = "ret" -> WorkflowRun(f)

SetFrame(f) ==
  /\ pc' = f.pc
  /\ activated_items' = f.activated_items
  /\ values' = f.values
  /\ something_activated' = f.something_activated
  /\ idx' = f.idx
  /\ result' = f.result
  /\ err' = f.err
  /\ trace' = f.trace
  /\ passes' = f.passes

\* Mutant: run keeps one dict for its values and empties it at each call.
NewDict_reused(ds) == IF ds = <<>> THEN <<EmptyMap>> ELSE [ds EXCEPT ![Len(ds)] = EmptyMap]

\* Line 170: values = {} creates a dict object at each call.
NewDict(ds) == Append(ds, EmptyMap)

\* Lines 174, 186 and 203 write to the dict the local name values refers to: the
\* dict created last.
WriteDict(ds, vals) == IF ds = <<>> THEN ds ELSE [ds EXCEPT ![Len(ds)] = vals]

\* The dicts after lines 163-177, f being the frame there: line 168 raises
\* before any dict is created.
DictsAtStart(f) == IF f.pc = "raised" THEN dicts ELSE WriteDict(NewDict(dicts), f.values)

\* Lines 213-217: the WorkflowRun object keeps a reference to the dict of the
\* run, not a copy of it; the object is handed out only if line 217 does not raise.
RunsAtReturn(f) ==
  IF f.pc = "returned"
  THEN Append(runs, [values |-> Len(dicts), output_value |-> f.result[1].output_value])
  ELSE runs

\* The argument lists a caller passes to run: every list of values up to one
\* longer than the workflow has inputs.
ArgLists == UNION {[1..n -> Val] : n \in 0..(Len(inputs) + 1)}

\* The workflow is constructed and no call is in progress.
Idle == pc = "idle"

\* The caller calls workflow.run(input_variables_values).
\* Mutant: run marks the cached graph of the workflow as out of date.
RunKeepsWorkflow_graphOutdated ==
  /\ utd_graph' = FALSE
  /\ UNCHANGED <<blocks, pipes, variables, inputs, outputs, cached_graph>>

\* Lines 162-209: run reads self.inputs, self.pipes, self.blocks and self.outputs
\* and assigns to no attribute of the workflow; it does not use the graph.
RunKeepsWorkflow == UNCHANGED wfvars

CallRun ==
  /\ Idle
  /\ \E ivv \in ArgLists :
       /\ input_variables_values' = ivv
       /\ SetFrame(RunStart(ivv))
       /\ dicts' = DictsAtStart(RunStart(ivv))
  /\ caller' = "main"
  /\ fe' = [values |-> <<>>, pos |-> 0, output_values |-> <<>>]
  /\ fe_result' = <<>>
  /\ nruns' = 0
  /\ RunKeepsWorkflow
  /\ UNCHANGED <<runs, evaluated, exchangevars>>

RunLoopTest ==
  /\ pc = "loop"
  /\ SetFrame(LoopTest(Frame))
  /\ RunKeepsWorkflow
  /\ UNCHANGED <<input_variables_values, caller, fe, fe_result, nruns,
                 heapvars, evaluated, exchangevars>>

RunPipe ==
  /\ pc = "pipes"
  /\ SetFrame(PipeBody(Frame))
  /\ dicts' = WriteDict(dicts, PipeBody(Frame).values)
  /\ RunKeepsWorkflow
  /\ UNCHANGED <<input_variables_values, caller, fe, fe_result, nruns,
                 runs, evaluated, exchangevars>>

RunBlock ==
  /\ pc = "blocks"
  /\ SetFrame(BlockBody(Frame))
  /\ dicts' = WriteDict(dicts, BlockBody(Frame).values)
  /\ RunKeepsWorkflow
  /\ UNCHANGED <<input_variables_values, caller, fe, fe_result, nruns,
                 runs, evaluated, exchangevars>>

RunReturn ==
  /\ pc = "ret"
  /\ SetFrame(WorkflowRun(Frame))
  /\ runs' = RunsAtReturn(WorkflowRun(Frame))
  /\ RunKeepsWorkflow
  /\ UNCHANGED <<input_variables_values, caller, fe, fe_result, nruns,
                 dicts, evaluated, exchangevars>>

\* --------------------------------------------------- ForEach.evaluate
\* The collections a caller passes as values[0].
Collections == UNION {[1..n -> Val] : n \in 0..MaxColl}

\* Mutant: the output of an iteration is put in front of the earlier ones.
FEAppend_prepended(output_values, workflow_run) ==
  <<workflow_run.output_value>> \o output_values

\* Line 77: output_values.append(workflow_run.output_value)
FEAppend(output_values, workflow_run) == Append(output_values, workflow_run.output_value)

\* Line 78: return [output_values]
FEResult(output_values) == <<output_values>>

\* Mutant: the loop iterates over the argument list itself.
FEIterated_values(vals) == vals

\* Line 75: for value in values[0] iterates over the first (and only) input.
FEIterated(vals) == vals[1]

\* Line 75: does the for loop have a further element?
FEHasNext(f) == f.pos <= Len(FEIterated(f.values))

\* The caller calls ForEach(workflow).evaluate([collection]); line 74.
CallForEach ==
  /\ Idle
  /\ \E c \in Collections :
       fe' = [values |-> <<c>>, pos |-> 1, output_values |-> <<>>]
  /\ pc' = "fe_loop"
  /\ caller' = "foreach"
  /\ fe_result' = <<>>
  /\ result' = <<>>
  /\ err' = "none"
  /\ trace' = <<>>
  /\ nruns' = 0
  /\ input_variables_values' = <<>>
  /\ activated_items' = EmptyMap
  /\ values' = EmptyMap
  /\ something_activated' = FALSE
  /\ idx' = 0
  /\ passes' = <<>>
  /\ UNCHANGED <<wfvars, heapvars, evaluated, exchangevars>>

\* Lines 75-76: the next element, and the call self.workflow.run([value]).
ForEachNext ==
  /\ pc = "fe_loop"
  /\ FEHasNext(fe)
  /\ input_variables_values' = <<FEIterated(fe.values)[fe.pos]>>
  /\ SetFrame(RunStart(<<FEIterated(fe.values)[fe.pos]>>))
  /\ dicts' = DictsAtStart(RunStart(<<FEIterated(fe.values)[fe.pos]>>))
  /\ nruns' = nruns + 1
  /\ RunKeepsWorkflow
  /\ UNCHANGED <<caller, fe, fe_result, runs, evaluated, exchangevars>>

\* Line 77, after the run of the wrapped workflow returned.
ForEachAppend ==
  /\ pc = "returned"
  /\ caller = "foreach"
  /\ fe' = [fe EXCEPT !.output_values = FEAppend(fe.output_values, result[1]),
                      !.pos = fe.pos + 1]
  /\ pc' = "fe_loop"
  /\ UNCHANGED <<wfvars, runvars, result, err, caller, fe_result, trace, nruns,
                 heapvars, evaluated, exchangevars>>

\* Line 78, once the collection is exhausted.
ForEachReturn ==
  /\ pc = "fe_loop"
  /\ ~FEHasNext(fe)
  /\ fe_result' = FEResult(fe.output_values)
  /\ pc' = "fe_returned"
  /\ UNCHANGED <<wfvars, runvars, result, err, caller, fe, trace, nruns,
                 heapvars, evaluated, exchangevars>>

\* --------------------------------------------- exchange representation
\* Serialization of a workflow to a tree of primitives and back, after section 6
\* of the specification: Blocks, Pipes and the output are presented as plain
\* attributes, and a Variable, shared between a Block and the Pipes, is written
\* as a reference marker.

\* The reference marker of a Variable of a Block: the index of the Block, 0 for an
\* input and 1 for an output, the position in that list (all counted from 0); of a
\* Variable of no Block: its index among these.
VariableIndices(v) ==
  IF v[1] = "free" THEN <<v[3] - 1>>
  ELSE <<v[2] - 1, IF v[1] = "in" THEN 0 ELSE 1, v[3] - 1>>

\* Mutant: the marker is read with positions counted from 1.
VariableFromIndices_fromOne(r) ==
  IF Len(r) = 1 THEN <<"free", 0, r[1]>>
  ELSE <<IF r[2] = 0 THEN "in" ELSE "out", r[1], r[3]>>

\* The Variable a reference marker stands for, among the Variables of the
\* deserialized Blocks.
VariableFromIndices(r) ==
  IF Len(r) = 1 THEN <<"free", 0, r[1] + 1>>
  ELSE <<IF r[2] = 0 THEN "in" ELSE "out", r[1] + 1, r[3] + 1>>

\* A Block as plain attributes: the name of its class and its configuration.
BlockToDict(blk) ==
  [object_class |-> blk.kind, parameters |-> blk.nin, results |-> blk.nout, code |-> blk.user]

DictToBlock(d) ==
  [kind |-> d.object_class, nin |-> d.parameters, nout |-> d.results, user |-> d.code]

PipeToDict(p) ==
  [input_variable |-> VariableIndices(p.input_variable),
   output_variable |-> VariableIndices(p.output_variable)]

DictToPipe(d) ==
  [input_variable |-> VariableFromIndices(d.input_variable),
   output_variable |-> VariableFromIndices(d.output_variable)]

\* The exchange representation of the constructed workflow.
ToExchangeTree ==
  [blocks |-> [b \in 1..Len(blocks) |-> BlockToDict(blocks[b])],
   pipes |-> [i \in 1..Len(pipes) |-> PipeToDict(pipes[i])],
   output |-> VariableIndices(outputs[1])]

\* The workflow made from an exchange representation.
FromExchangeTree(t) ==
  [blocks |-> [b \in 1..Len(t.blocks) |-> DictToBlock(t.blocks[b])],
   pipes |-> [i \in 1..Len(t.pipes) |-> DictToPipe(t.pipes[i])],
   outputs |-> <<VariableFromIndices(t.output)>>]

\* The caller serializes the workflow, or the workflow of the WorkflowRun that
\* run returned.
Serialize ==
  /\ pc = "idle" \/ (pc = "returned" /\ caller = "main")
  /\ tree' = <<ToExchangeTree>>
  /\ pc' = "serialized"
  /\ UNCHANGED <<wfvars, runvars, result, err, caller, fe, fe_result, trace, nruns, heapvars,
                 evaluated, deserialized>>

\* The caller deserializes the exchange representation.
Deserialize ==
  /\ pc = "serialized"
  /\ deserialized' = <<FromExchangeTree(tree[1])>>
  /\ pc' = "deserialized"
  /\ UNCHANGED <<wfvars, runvars, result, err, caller, fe, fe_result, trace, nruns, heapvars,
                 evaluated, tree>>

Next ==
  \/ NewBlock
  \/ CallEvaluate
  \/ NewPipe
  \/ WorkFlowInit
  \/ CallRun
  \/ RunLoopTest
  \/ RunPipe
  \/ RunBlock
  \/ RunReturn
  \/ CallForEach
  \/ ForEachNext
  \/ ForEachAppend
  \/ ForEachReturn
  \/ Serialize
  \/ Deserialize

Spec == Init /\ [][Next]_vars

\* ------------------------------------------- WorkflowState (stepwise run)
\* start_run and the single-step advance of a WorkflowState, after sections 4.5
\* and 6 of the specification. The WorkflowState holds the activation flags and
\* the values (here activated_items and values), whether the pass in progress
\* activated something (something_activated) and where the pass is (idx: 0 before
\* the Pipes of a pass, else the position in the list of Blocks). What a Pipe
\* propagation and a Block evaluation do is what run does for them (the
\* algorithm is shared); the steps and their order are the specification's.

\* The partial or full lists of input values given to start_run.
PartialArgLists == UNION {[1..n -> Val] : n \in 0..Len(inputs)}

\* start_run(partial_input_values): the given values are bound to the first
\* workflow inputs and these are activated; everything else is unactivated.
StateStart(ivv) ==
  LET bound == {inputs[i] : i \in 1..Len(ivv)}
  IN [pc |-> "state",
      activated_items |-> [x \in Items |-> x \in bound],
      values |-> [v \in bound |-> ivv[CHOOSE i \in 1..Len(ivv) : inputs[i] = v]],
      something_activated |-> FALSE, idx |-> 0,
      result |-> <<>>, err |-> "none", trace |-> <<>>, passes |-> <<>>]

\* All currently ready Pipe propagations, the Pipes taken in list order from the i-th.
RECURSIVE PropagateFrom(_, _)
PropagateFrom(f, i) ==
  IF i > Len(pipes) \/ f.pc = "raised" THEN f
  ELSE PropagateFrom(PipeBody([f EXCEPT !.pc = "pipes", !.idx = i]), i + 1)

\* The WorkflowState after a step ended at position pos of the pass.
Paused(f, pos) ==
  IF f.pc = "raised" THEN [f EXCEPT !.pc = "state_failed"]
  ELSE [f EXCEPT !.pc = "state", !.idx = pos]

\* A step that begins a pass: all ready Pipe propagations.
PipesStep(f) == Paused(PropagateFrom([f EXCEPT !.something_activated = FALSE], 1), 1)

\* The Blocks from the position of the pass on that are unactivated with all
\* their input Variables activated.
ReadyFrom(f) ==
  {b \in f.idx..Len(blocks) :
     ~f.activated_items[BlockItem(b)] /\ AllInputsActivated(f.activated_items, b)}

\* A step that evaluates exactly one Block: the next ready one in declaration order.
BlockStep(f) ==
  LET b == CHOOSE x \in ReadyFrom(f) : \A y \in ReadyFrom(f) : x <= y
  IN Paused(BlockBody([f EXCEPT !.pc = "blocks", !.idx = b]), b + 1)

\* The WorkflowState is terminal: it is finalized into a WorkflowRun if the
\* designated output Variable is bound.
Finalize(f) ==
  [f EXCEPT !.pc = "state_done",
            !.result = IF outputs[1] \in DOMAIN f.values
                       THEN <<[values |-> f.values, output_value |-> f.values[outputs[1]]]>>
                       ELSE <<>>]

\* WorkflowState.advance(): one step.
StateAdvance(f) ==
  IF f.idx = 0 THEN PipesStep(f)
  ELSE IF ReadyFrom(f) # {} THEN BlockStep(f)
  ELSE IF f.something_activated THEN PipesStep(f)
  ELSE Finalize(f)

\* The caller calls workflow.start_run(partial_input_values).
StartRun ==
  /\ Idle
  /\ \E ivv \in PartialArgLists :
       /\ input_variables_values' = ivv
       /\ SetFrame(StateStart(ivv))
  /\ caller' = "stepwise"
  /\ UNCHANGED <<wfvars, fe, fe_result, nruns, heapvars, evaluated, exchangevars>>

\* The caller calls advance() on the WorkflowState.
Advance ==
  /\ pc = "state"
  /\ SetFrame(StateAdvance(Frame))
  /\ UNCHANGED <<wfvars, input_variables_values, caller, fe, fe_result, nruns,
                 heapvars, evaluated, exchangevars>>

NextStepwise ==
  \/ NewBlock
  \/ NewPipe
  \/ WorkFlowInit
  \/ StartRun
  \/ Advance

SpecStepwise == Init /\ [][NextStepwise]_vars

\* ================================================================ claims
\* The dependency graph of the constructed workflow (the graph property).
DependencyGraph == Graph(variables)

\* A directed cycle: an edge a -> b with a path from b back to a.
HasCycle(G) == \E e \in G.edges : e[2] \in ReachTo(G, {e[1]}, {e[1]})

Activated(x) == x \in DOMAIN activated_items /\ activated_items[x]

\* A call of run by the caller has ended.
RunEnded == caller = "main" /\ pc \in {"returned", "raised"}

\* An unactivated pipe whose source is activated; an unactivated block that is ready.
PipeReady(i) == ~Activated(PipeItem(i)) /\ Activated(pipes[i].input_variable)
BlockReady(b) == ~Activated(BlockItem(b)) /\ \A k \in 1..blocks[b].nin : Activated(InVar(b, k))

\* ---- C1 -----------------------------------------------------------------
\* C1: for an acyclic workflow, a call of run with as many values as the workflow
\* has inputs, in which every evaluate that was called returned and the designated
\* output Variable got activated, ends by returning a WorkflowRun.
\* The code does not: a Function block returns the plain result of its function,
\* and zip raises TypeError on it; a Pipe from a Variable of no block raises
\* KeyError in the loop over the pipes.
C1_AcyclicRunReturnsWorkflowRun ==
  (/\ RunEnded
   /\ ~HasCycle(DependencyGraph)
   /\ Len(input_variables_values) = Len(inputs)
   /\ err # "UserError"
   /\ Activated(outputs[1]))
  => (pc = "returned" /\ Len(result) = 1)

\* ---- C2 -----------------------------------------------------------------
\* run has left its while loop through the loop test: it is at line 209, or it
\* has returned, or WorkflowRun raised (the only KeyError raised outside the loops).
LeftLoop ==
  \/ pc \in {"ret", "returned"}
  \/ pc = "raised" /\ err = "KeyError" /\ idx = 0

\* C2: when run has left its while loop, no unactivated Pipe has an activated
\* source Variable and no unactivated Block has all its input Variables activated.
C2_FixpointAfterLoop ==
  LeftLoop =>
    /\ \A i \in 1..Len(pipes) : ~PipeReady(i)
    /\ \A b \in 1..Len(blocks) : ~BlockReady(b)

\* Witness: the loop was left after activations, with one Pipe and one
\* Block activated and another Block left unactivated (a partial fixpoint).
C2_Witness ==
  /\ pc = "ret"
  /\ Len(trace) >= 2
  /\ \E i \in 1..Len(pipes) : Activated(PipeItem(i))
  /\ \E b \in 1..Len(blocks) : Activated(BlockItem(b))
  /\ \E b \in 1..Len(blocks) : ~Activated(BlockItem(b))

\* ---- C3 -----------------------------------------------------------------
\* C3: a step of run that evaluates a Block is never taken while a Block declared
\* earlier in the blocks list is unactivated and ready.
C3_DeclarationOrder ==
  [][(pc = "blocks" /\ Len(trace') = Len(trace) + 1)
       => \A b \in 1..Len(blocks) :
            (trace'[Len(trace')] = BlockItem(b))
              => \A a \in 1..(b - 1) : ~BlockReady(a)]_vars

\* Witness: in one pass the first Block has just been evaluated while the second,
\* ready since before that evaluation, waits for its turn.
C3_Witness ==
  /\ pc = "blocks"
  /\ idx = 2
  /\ Len(trace) = 1
  /\ trace[1] = BlockItem(1)
  /\ BlockReady(2)

\* ---- C4 -----------------------------------------------------------------
\* The collection ForEach.evaluate was called on.
FECollection == fe.values[1]

\* A complete run of the wrapped workflow on its own, from the call to its end.
RECURSIVE Exec(_)
Exec(f) == IF f.pc \in {"returned", "raised"} THEN f ELSE Exec(StepFrame(f))

CompleteRun(x) == Exec(RunStart(<<x>>))

\* C4: when ForEach.evaluate returns for the collection [x1..xn], every complete
\* run of the wrapped workflow on one xi returns, and evaluate returned exactly one
\* output, the sequence of the output_value of these runs in the order of the
\* collection (same length, duplicates kept); evaluate raises only with the
\* exception of the complete run on the element it stopped at.
C4_ForEachMapsInOrder ==
  /\ (caller = "foreach" /\ pc = "fe_returned") =>
       /\ \A i \in 1..Len(FECollection) : CompleteRun(FECollection[i]).pc = "returned"
       /\ fe_result =
            <<[i \in 1..Len(FECollection) |->
                 CompleteRun(FECollection[i]).result[1].output_value]>>
  /\ (caller = "foreach" /\ pc = "raised") =>
       /\ fe_result = <<>>
       /\ CompleteRun(FECollection[fe.pos]).pc = "raised"
       /\ CompleteRun(FECollection[fe.pos]).err = err

\* Witness: evaluate returned for a collection of two elements whose runs gave
\* different outputs.
C4_Witness ==
  /\ caller = "foreach"
  /\ pc = "fe_returned"
  /\ Len(FECollection) = 2
  /\ Len(fe_result) = 1
  /\ Len(fe_result[1]) = 2
  /\ fe_result[1][1] # fe_result[1][2]

\* ---- C5 -----------------------------------------------------------------
\* C5: ForEach.evaluate on the empty collection starts no run of the wrapped
\* workflow, evaluates no Block, raises nothing, and what it returns is one
\* output, the empty sequence.
C5_ForEachEmpty ==
  (caller = "foreach" /\ FECollection = <<>>) =>
     /\ pc \in {"fe_loop", "fe_returned"}
     /\ nruns = 0
     /\ trace = <<>>
     /\ err = "none"
     /\ (pc = "fe_returned" => fe_result = << <<>> >>)

\* Witness: evaluate returned on the empty collection, wrapping a workflow with a Block.
C5_Witness ==
  /\ caller = "foreach"
  /\ pc = "fe_returned"
  /\ FECollection = <<>>
  /\ Len(blocks) > 0

\* ---- C6 -----------------------------------------------------------------
\* A call of run has started (by the caller or by ForEach.evaluate).
InRun == pc \in {"loop", "pipes", "blocks", "ret", "returned", "raised"}

FixpointWithoutOutput ==
  /\ pc \in {"returned", "raised"}
  /\ Len(blocks) > 0
  /\ Len(input_variables_values) = Len(inputs)
  /\ idx = 0
  /\ ~something_activated
  /\ outputs[1] \notin DOMAIN values

\* C7: a run that reaches its fixpoint without the designated output Variable
\* activated ends with an unreachable-output error, not with a WorkflowRun and not
\* with another exception. The code ends it with the KeyError of line 217.
C7_UnreachableOutputReported ==
  FixpointWithoutOutput => (pc = "raised" /\ err = "UnreachableOutputError")

\* ---- C8 -----------------------------------------------------------------
\* C8: once the user code of a Block has raised, run has ended with that exception:
\* the call of that Block is the last event of the run, the Block is not marked
\* activated, no WorkflowRun exists (and ForEach.evaluate returned nothing), and
\* no further step of the program is taken.
C8_BlockExceptionAborts ==
  /\ [](err = "UserError" =>
         /\ pc = "raised"
         /\ result = <<>>
         /\ fe_result = <<>>
         /\ trace # <<>>
         /\ trace[Len(trace)] = BlockItem(idx)
         /\ blocks[idx].user = "raise"
         /\ ~Activated(BlockItem(idx)))
  /\ [][err # "UserError"]_vars

\* Witness: the first Block raised while the second Block was ready to be evaluated.
C8_Witness ==
  /\ pc = "raised"
  /\ err = "UserError"
  /\ Len(blocks) = 2
  /\ idx = 1
  /\ BlockReady(2)

\* ---- C9 -----------------------------------------------------------------
\* The order of first occurrence: the Variables of an earlier Block first, within a
\* Block its inputs then its outputs, each in list order, and the Variables that
\* only Pipes mention last.
OccursBefore(v, w) ==
  \/ v[1] # "free" /\ w[1] = "free"
  \/ v[1] # "free" /\ w[1] # "free" /\ v[2] < w[2]
  \/ v[1] # "free" /\ v[2] = w[2] /\ v[1] = "in" /\ w[1] = "out"
  \/ v[1] # "free" /\ v[2] = w[2] /\ v[1] = w[1] /\ v[3] < w[3]

\* A call of run passed the arity test and is in progress or returned.
RunBound == pc \in {"loop", "pipes", "blocks", "ret", "returned"}

\* C9: the workflow inputs are listed in order of first occurrence, and during a
\* run the i-th input Variable holds the i-th value passed to run, for every i.
C9_InputsOrderedAndBoundByPosition ==
  /\ pc # "new" =>
       \A i \in 1..Len(inputs) : \A j \in 1..Len(inputs) :
          i < j => OccursBefore(inputs[i], inputs[j])
  /\ RunBound =>
       /\ Len(input_variables_values) = Len(inputs)
       /\ \A i \in 1..Len(inputs) :
            /\ Activated(inputs[i])
            /\ values[inputs[i]] = input_variables_values[i]

\* Witness: a run got two different values for two inputs that belong to two Blocks.
C9_Witness ==
  /\ pc = "ret"
  /\ Len(inputs) = 2
  /\ inputs[1][2] # inputs[2][2]
  /\ input_variables_values[1] # input_variables_values[2]
  /\ values[inputs[1]] # values[inputs[2]]

\* ---- C10 ----------------------------------------------------------------
\* The Variables among the nodes of the dependency graph.
GraphVariables == {n \in DependencyGraph.nodes : n[1] \in {"in", "out", "free"}}

IsPipeTarget(v) == \E i \in 1..Len(pipes) : pipes[i].output_variable = v
IsBlockOutput(v) == v[1] = "out"

\* C10: in a constructed workflow, a Variable of the dependency graph is a workflow
\* input if and only if no Pipe targets it and no Block outputs it.
\* The code lists only Variables of Blocks, so a Variable that only a Pipe starts
\* from is left out; and a Variable whose only incoming edge is a Pipe from itself
\* has no ancestor and is listed.
C10_InputsAreInDegreeZero ==
  pc # "new" =>
    \A v \in GraphVariables :
       (v \in Range(inputs)) <=> (~IsPipeTarget(v) /\ ~IsBlockOutput(v))

\* ---- C11 ----------------------------------------------------------------
\* C11: the step that returns from run creates a WorkflowRun whose output_value
\* is the value the designated output Variable held when the while loop was left,
\* and a returned WorkflowRun holds the values mapping of the run with that value
\* as output_value.
C11_OutputValueIsOutputBinding ==
  /\ [](pc = "returned" =>
         /\ Len(result) = 1
         /\ result[1].values = values
         /\ result[1].output_value = values[outputs[1]])
  /\ [][(pc = "ret" /\ pc' = "returned") =>
          result'[1].output_value = values[outputs[1]]]_vars

\* Witness: run returned with, for output_value, the value a Block computed for
\* one of its output Variables, another value than the one bound to the first input.
C11_Witness ==
  /\ pc = "returned"
  /\ caller = "main"
  /\ outputs[1][1] = "out"
  /\ Activated(BlockItem(outputs[1][2]))
  /\ result[1].output_value = values[outputs[1]]
  /\ result[1].output_value # values[inputs[1]]

\* ---- C12 ----------------------------------------------------------------
ActivatedNext(x) == x \in DOMAIN activated_items' /\ activated_items'[x]

\* C12: in every step in which a Pipe becomes activated, its source Variable was
\* activated before the step, and after the step the target Variable is activated
\* and holds the value the source Variable held before the step.
C12_PipeIsPureRelay ==
  [][\A i \in 1..Len(pipes) :
       (~Activated(PipeItem(i)) /\ ActivatedNext(PipeItem(i))) =>
          /\ Activated(pipes[i].input_variable)
          /\ pipes[i].input_variable \in DOMAIN values
          /\ ActivatedNext(pipes[i].output_variable)
          /\ pipes[i].output_variable \in DOMAIN values'
          /\ values'[pipes[i].output_variable] = values[pipes[i].input_variable]]_vars

\* Witness: a Pipe has just relayed the value a Block computed to an input
\* Variable of another Block.
C12_Witness ==
  /\ pc \in {"pipes", "blocks"}
  /\ trace # <<>>
  /\ \E i \in 1..Len(pipes) :
       /\ trace[Len(trace)] = PipeItem(i)
       /\ pipes[i].input_variable[1] = "out"
       /\ pipes[i].output_variable[1] = "in"
       /\ pipes[i].output_variable[2] # pipes[i].input_variable[2]
       /\ values[pipes[i].output_variable] = values[pipes[i].input_variable]

\* ---- C13 ----------------------------------------------------------------
\* C13: ModelMethod.evaluate on the values [receiver, a1..an] returns a list of
\* exactly two items: first what the method returns when called on the receiver
\* with a1..an in this order, second the receiver it was given.
C13_ModelMethodOutputs ==
  (pc = "evaluated" /\ evaluated[1].block.kind = "ModelMethod") =>
     LET vals == evaluated[1].values
         returned == evaluated[1].returned
     IN /\ returned.tag = "list"
        /\ Len(returned.items) = 2
        /\ returned.items[1] =
             MethodCall(vals[1], [k \in 1..(Len(vals) - 1) |-> vals[k + 1]])
        /\ returned.items[2] = vals[1]

\* Witness: a method of two parameters was called with two different arguments
\* and returned something else than the receiver.
C13_Witness ==
  /\ pc = "evaluated"
  /\ evaluated[1].block.kind = "ModelMethod"
  /\ Len(evaluated[1].values) = 3
  /\ evaluated[1].values[2] # evaluated[1].values[3]
  /\ evaluated[1].returned.items[1] # evaluated[1].returned.items[2]

\* ---- C14 ----------------------------------------------------------------
\* The b-th Block was called in the current run and its evaluate returned.
EvaluateReturned(b) ==
  /\ \E n \in 1..Len(trace) : trace[n] = BlockItem(b)
  /\ ~(pc = "raised" /\ err = "UserError" /\ trace[Len(trace)] = BlockItem(b))

\* C14: whenever evaluate returns, it returns a list with one value per declared
\* output of the Block (ForEach.evaluate: one value), and a Block whose evaluate
\* returned in a run has each of its output Variables activated and bound.
\* The code does not: Function.evaluate returns what the function returns, not a
\* list of it, and run fails on it or binds too few outputs.
C14_OneValuePerOutput ==
  /\ (pc = "evaluated" /\ evaluated[1].returned.tag # "raise") =>
        /\ evaluated[1].returned.tag = "list"
        /\ Len(evaluated[1].returned.items) = evaluated[1].block.nout
  /\ (pc = "fe_returned") => Len(fe_result) = 1
  /\ InRun =>
        \A b \in 1..Len(blocks) :
           EvaluateReturned(b) =>
              \A k \in 1..blocks[b].nout :
                 Activated(OutVar(b, k)) /\ OutVar(b, k) \in DOMAIN values

BlockInputVariables == {v \in Range(variables) : v[1] = "in"}

PipesTo(v) == {i \in 1..Len(pipes) : pipes[i].output_variable = v}

\* C16: in a constructed workflow every Block input Variable is the target of at
\* most one Pipe, and one that a Pipe targets is not a workflow input.
\* The constructor checks neither: two Pipes may share a target, and a Variable
\* piped to itself is a Pipe target and a workflow input at once.
C16_OnePipeOrWorkflowInput ==
  pc # "new" =>
    \A v \in BlockInputVariables :
       /\ Cardinality(PipesTo(v)) <= 1
       /\ ~(PipesTo(v) # {} /\ v \in Range(inputs))

\* ---- C17 ----------------------------------------------------------------
\* A Pipe whose source Variable is no output of a Block of the workflow and no
\* workflow input.
Dangling(i) ==
  /\ ~(pipes[i].input_variable \in Range(variables) /\ IsBlockOutput(pipes[i].input_variable))
  /\ pipes[i].input_variable \notin Range(inputs)

\* C17: no workflow with a dangling Pipe gets constructed (the constructor raises
\* instead), and no run raises in its loop over the pipes.
\* The constructor raises nothing, and run raises KeyError at line 184 when it
\* looks up the activation of a source Variable that belongs to no Block.
C17_DanglingPipeRejected ==
  /\ pc # "new" => \A i \in 1..Len(pipes) : ~Dangling(i)
  /\ ~(pc = "raised" /\ err = "KeyError" /\ idx > 0)

\* ---- C18 ----------------------------------------------------------------
\* C18: no workflow whose dependency graph has a directed cycle gets constructed
\* (the constructor raises instead), so no run is started on one.
\* The constructor raises nothing: it builds the graph only to find the inputs.
C18_CycleRejected ==
  pc # "new" => ~HasCycle(DependencyGraph)

\* ---- C19 ----------------------------------------------------------------
\* C19: no step changes a WorkflowRun that exists: it stays in place with the
\* same reference to its values dict and the same output_value, the dict it
\* refers to keeps its content, and the workflow it was made for keeps its
\* blocks, pipes, variables, inputs, outputs and graph.
C19_WorkflowRunImmutable ==
  [][\A k \in 1..Len(runs) :
       /\ Len(runs') >= k
       /\ runs'[k] = runs[k]
       /\ Len(dicts') >= runs[k].values
       /\ dicts'[runs[k].values] = dicts[runs[k].values]
       /\ wfvars' = wfvars]_vars

\* Witness: a later iteration of a ForEach has bound values in its own dict while
\* the WorkflowRun of the first iteration exists, with other values in its dict.
C19_Witness ==
  /\ caller = "foreach"
  /\ nruns = 2
  /\ Len(runs) = 2
  /\ runs[1].values # runs[2].values
  /\ dicts[runs[1].values] # dicts[runs[2].values]
  /\ runs[1].output_value = dicts[runs[1].values][outputs[1]]
  /\ runs[1].output_value # runs[2].output_value

C21_EvaluatedWhenReady ==
  [][\A b \in 1..Len(blocks) :
       (pc = "blocks" /\ trace' = Append(trace, BlockItem(b))) =>
          /\ \A k \in 1..blocks[b].nin :
               Activated(InVar(b, k)) /\ InVar(b, k) \in DOMAIN values
          /\ LET r == Evaluate(blocks[b], [k \in 1..blocks[b].nin |-> values[InVar(b, k)]])
             IN /\ (r.tag = "raise") <=> (pc' = "raised" /\ err' = "UserError")
                /\ (r.tag = "list") =>
                     \A k \in 1..Min(blocks[b].nout, Len(r.items)) :
                        /\ OutVar(b, k) \in DOMAIN values'
                        /\ values'[OutVar(b, k)] = r.items[k]]_vars

\* Witness: a Block of two inputs has just been evaluated on two different values.
C21_Witness ==
  /\ pc \in {"blocks", "loop"}
  /\ trace # <<>>
  /\ \E b \in 1..Len(blocks) :
       /\ trace[Len(trace)] = BlockItem(b)
       /\ blocks[b].nin = 2
       /\ values[InVar(b, 1)] # values[InVar(b, 2)]
       /\ OutVar(b, 1) \in DOMAIN values

\* ---- C22 ----------------------------------------------------------------
\* C22: within one run each Block is evaluated at most once and each Pipe
\* propagates its value at most once: no Block and no Pipe occurs twice in the
\* sequence of the evaluations and propagations of the run.
C22_AtMostOncePerRun ==
  InRun => \A m, n \in 1..Len(trace) : trace[m] = trace[n] => m = n

\* Witness: a run of several passes is over, in which a Block, then a Pipe, then
\* a Block acted, each one visited again in the passes that followed.
C22_Witness ==
  /\ pc = "returned"
  /\ Len(trace) = 3
  /\ trace[1][1] = "block" /\ trace[2][1] = "pipe" /\ trace[3][1] = "block"

\* ---- C23 ----------------------------------------------------------------
\* Every evaluate of the Workflow returns a list of one value per output.
WellBehavedBlocks == \A b \in 1..Len(blocks) : blocks[b].user \in {"ok", "list"}

\* Every Pipe connects two Variables of the Workflow's own Blocks.
PipesWithinBlocks ==
  \A i \in 1..Len(pipes) :
     pipes[i].input_variable[1] # "free" /\ pipes[i].output_variable[1] # "free"

\* A run of an acyclic Workflow with Pipes between its own Blocks and
\* well-behaved Blocks, given as many values as the Workflow has inputs, is over.
CompleteRunCase ==
  /\ pc \in {"returned", "raised"}
  /\ ~HasCycle(DependencyGraph)
  /\ PipesWithinBlocks
  /\ WellBehavedBlocks
  /\ Len(input_variables_values) = Len(inputs)

\* Every Block was evaluated and every Variable and every Pipe is activated.
EverythingActivated ==
  /\ \A b \in 1..Len(blocks) :
       Activated(BlockItem(b)) /\ \E n \in 1..Len(trace) : trace[n] = BlockItem(b)
  /\ \A n \in 1..Len(variables) : Activated(variables[n])
  /\ \A i \in 1..Len(pipes) : Activated(PipeItem(i))

\* C23 as stated: such a run ends with every Block evaluated and every Variable
\* and every Pipe activated, never partial, and always activates the designated
\* output. Refuted when the designated output is a Variable of no Block.
C23_CompleteRun ==
  CompleteRunCase =>
     (pc = "returned" /\ EverythingActivated /\ Activated(outputs[1]))

\* C23, amended: when moreover the designated output is a Variable of one of the
\* Workflow's Blocks, such a run returns with every Block evaluated and every
\* Variable and every Pipe activated, the designated output among them; when the
\* output is a Variable of no Block, everything of the Workflow is activated all
\* the same but the output is not, and the run does not return.
C23_CompleteRunOfBlockOutput ==
  CompleteRunCase =>
     /\ EverythingActivated
     /\ (outputs[1][1] # "free") => (pc = "returned" /\ Activated(outputs[1]))
     /\ (outputs[1][1] = "free") => (pc = "raised" /\ ~Activated(outputs[1]))

\* Witness: a run over two Blocks chained by a Pipe returned.
C23_Witness ==
  /\ CompleteRunCase
  /\ pc = "returned"
  /\ outputs[1] = OutVar(2, 1)
  /\ Len(pipes) = 1
  /\ pipes[1] = [input_variable |-> OutVar(1, 1), output_variable |-> InVar(2, 1)]
  /\ trace = <<BlockItem(1), PipeItem(1), BlockItem(2)>>

\* ---- C24 ----------------------------------------------------------------
\* The Pipes and Blocks that are activated.
ActivatedPipesAndBlocks ==
  {x \in DOMAIN activated_items : x[1] \in {"pipe", "block"} /\ activated_items[x]}

\* C24: the loop of run terminates for every Workflow, cyclic ones included, as
\* long as evaluate returns: every pass except the last activates at least one
\* Pipe or Block that was not activated before, so that a run makes at most
\* (number of Pipes + number of Blocks + 1) passes, each one a walk over the
\* finite lists of the Pipes and of the Blocks.
C24_PassesBounded ==
  InRun =>
     /\ Len(passes) <= Len(pipes) + Len(blocks) + 1
     /\ \A k \in 1..(Len(passes) - 1) : passes[k] < passes[k + 1]
     /\ Len(trace) <= Len(pipes) + Len(blocks)
     /\ (pc # "raised") => Cardinality(ActivatedPipesAndBlocks) = Len(trace)
     /\ (pc = "pipes") => idx \in 1..Len(pipes)
     /\ (pc = "blocks") => idx \in 1..Len(blocks)

\* Witness: a run over a cyclic Workflow came to its end after three passes.
C24_Witness ==
  /\ pc \in {"returned", "raised"}
  /\ HasCycle(DependencyGraph)
  /\ Len(passes) = 3
  /\ passes[1] < passes[2] /\ passes[2] < passes[3]

\* ---- C25 ----------------------------------------------------------------
\* Every Variable is the target of at most one Pipe and no Pipe targets an
\* output Variable of a Block.
SingleWriter ==
  /\ \A i, j \in 1..Len(pipes) :
       pipes[i].output_variable = pipes[j].output_variable => i = j
  /\ \A i \in 1..Len(pipes) : ~IsBlockOutput(pipes[i].output_variable)

\* C25: in a Workflow where every Variable is the target of at most one Pipe and
\* no Pipe targets an output Variable of a Block, the value bound to a Variable
\* never changes during a run once the Variable is activated: every step of the
\* run leaves the value of every activated Variable as it is.
C25_BoundValueIsStable ==
  [][(SingleWriter /\ pc \in {"loop", "pipes", "blocks", "ret"}) =>
        \A v \in DOMAIN values :
           Activated(v) => (v \in DOMAIN values' /\ values'[v] = values[v])]_vars

\* Witness: in such a Workflow a run of two Pipes and a Block returned, the Pipes
\* and the Block having written after the inputs were bound.
C25_Witness ==
  /\ SingleWriter
  /\ pc = "returned"
  /\ Len(pipes) = 2
  /\ Len(trace) >= 3
  /\ Cardinality(DOMAIN values) >= 4

\* ---- C26 ----------------------------------------------------------------
\* The Variables marked activated.
ActivatedVariables ==
  {x \in DOMAIN activated_items : x[1] \in {"in", "out", "free"} /\ activated_items[x]}

\* C26: at every point of a run, between two steps of its loops and when it has
\* ended, the Variables that have a bound value are exactly the Variables that
\* are marked activated.
C26_BoundIffActivated ==
  InRun => DOMAIN values = ActivatedVariables

\* Witness: a run is in progress in which a Pipe has bound a Variable of no
\* Block and a Function block that returned no value left its output unbound.
C26_Witness ==
  /\ pc \in {"loop", "pipes", "blocks", "ret"}
  /\ FreeVariable \in DOMAIN values
  /\ \E b \in 1..Len(blocks) :
       /\ blocks[b].user = "empty"
       /\ Activated(BlockItem(b))
       /\ OutVar(b, 1) \notin DOMAIN values

\* ---- C27 ----------------------------------------------------------------
\* C27: activation is monotone within a run: a Variable, Pipe or Block that is
\* activated stays activated at every later step of the run, until the run ends.
C27_ActivationIsMonotone ==
  [][(pc \in {"loop", "pipes", "blocks", "ret"}) =>
        \A x \in DOMAIN activated_items : activated_items[x] => ActivatedNext(x)]_vars

\* Witness: a run is in the block loop of its second pass or later, with a Pipe,
\* a Block and Variables activated in an earlier pass and a Block not yet.
C27_Witness ==
  /\ pc = "blocks"
  /\ Len(passes) >= 2
  /\ \E i \in 1..Len(pipes) : Activated(PipeItem(i))
  /\ \E b, c \in 1..Len(blocks) :
       /\ Activated(BlockItem(b)) /\ Activated(OutVar(b, 1))
       /\ ~Activated(BlockItem(c))

\* ---- C28 ----------------------------------------------------------------
\* C28: at every point of a run, every activated Pipe has both its source and
\* its target Variable activated, and every activated Block has all its input
\* Variables activated.
C28_ActivatedAfterItsInputs ==
  InRun =>
     /\ \A i \in 1..Len(pipes) :
          Activated(PipeItem(i)) =>
             Activated(pipes[i].input_variable) /\ Activated(pipes[i].output_variable)
     /\ \A b \in 1..Len(blocks) :
          Activated(BlockItem(b)) => \A k \in 1..blocks[b].nin : Activated(InVar(b, k))

\* Witness: a Pipe into an input of a Block of two inputs and that Block are
\* activated, while another Block is not.
C28_Witness ==
  /\ InRun
  /\ \E i \in 1..Len(pipes) : \E b, c \in 1..Len(blocks) :
       /\ Activated(PipeItem(i))
       /\ pipes[i].output_variable = InVar(b, 2)
       /\ Activated(BlockItem(b))
       /\ ~Activated(BlockItem(c))

\* ---- C29 ----------------------------------------------------------------
\* A call of run begins with this step: by the caller, or by ForEach for the
\* next element of its collection.
RunBegins == pc \in {"idle", "fe_loop"} /\ pc' \in {"loop", "raised"}

\* What a run of the Workflow on the given values does when nothing else ever
\* ran: the frame at its end.
RunAlone(ivv) == Exec(RunStart(ivv))

\* C29: runs are independent and deterministic. Every call of run starts from
\* fresh flags and values, whatever an earlier run (an earlier iteration of
\* ForEach) left: only the inputs are bound and activated. A run that ended has
\* evaluated the Blocks and propagated the Pipes that a run alone on the same
\* inputs does, in the same order, with the same outcome and output_value; and
\* two iterations of ForEach on equal elements gave the same output_value.
C29_RunsAreIndependent ==
  /\ [][RunBegins =>
          /\ trace' = <<>> /\ result' = <<>> /\ passes' = <<>>
          /\ (pc' = "loop") =>
               /\ values' = BindInputs(input_variables_values')
               /\ activated_items' = [x \in Items |-> x \in Range(inputs)]
          /\ (pc' = "raised") =>
               /\ values' = EmptyMap
               /\ activated_items' = [x \in Items |-> FALSE]]_vars
  /\ []((pc \in {"returned", "raised"} /\ caller \in {"main", "foreach"}) =>
          LET g == RunAlone(input_variables_values)
          IN /\ pc = g.pc /\ err = g.err
             /\ trace = g.trace
             /\ result = g.result
             /\ values = g.values)
  /\ [](caller = "foreach" =>
          \A j, k \in 1..Len(fe.output_values) :
             FECollection[j] = FECollection[k] => fe.output_values[j] = fe.output_values[k])

\* Witness: the second iteration of ForEach, on an element equal to the first,
\* returned after evaluating two Blocks, the first iteration having left its
\* values and flags behind.
C29_Witness ==
  /\ caller = "foreach"
  /\ pc = "returned"
  /\ fe.pos = 2
  /\ Len(fe.output_values) = 1
  /\ FECollection[1] = FECollection[2]
  /\ Len(trace) >= 2
  /\ fe.output_values[1] = result[1].output_value

\* ---- C30 ----------------------------------------------------------------
\* This step is a step of run: its beginning, a step of its loops or its end.
RunStep ==
  /\ pc \in {"idle", "fe_loop", "loop", "pipes", "blocks", "ret"}
  /\ pc' \in {"loop", "pipes", "blocks", "ret", "returned", "raised"}

\* C30: run leaves the definition of the Workflow unchanged: its blocks, pipes,
\* variables, inputs, outputs and its cached dependency graph are after every
\* step of a run what they were before it, and in and after any run, successful
\* or failed, they are what the constructor made of the blocks and pipes.
C30_RunKeepsDefinition ==
  /\ [][RunStep =>
          /\ blocks' = blocks /\ pipes' = pipes /\ variables' = variables
          /\ inputs' = inputs /\ outputs' = outputs
          /\ cached_graph' = cached_graph /\ utd_graph' = utd_graph]_vars
  /\ [](InRun =>
          /\ variables = AllVariables(Len(blocks))
          /\ inputs = InputVariables(variables, Graph(variables))
          /\ Len(variables) > 0 => (utd_graph /\ cached_graph = Graph(variables)))

\* Witness: a run over a Workflow with a Pipe failed in the user code of its
\* second Block, after the first Block and the Pipe were activated.
C30_Witness ==
  /\ pc = "raised"
  /\ err = "UserError"
  /\ trace = <<BlockItem(1), PipeItem(1), BlockItem(2)>>
  /\ utd_graph
  /\ cached_graph = Graph(variables)
====
